---- MODULE Spec2Model ----
(***************************************************************************)
(* Model of workflow/fetch_and_upload.py: the per-artifact reconciliation  *)
(* (handle_download_and_upload), the mirror reuse (try_download_from_hf),  *)
(* the origin download (download_file), the chunked upload                 *)
(* (upload_with_chunks) and the run driver (main), as one sequential       *)
(* process whose position is pc.  Network calls are steps whose result is  *)
(* chosen nondeterministically; files on disk and the manifest document    *)
(* persist from one run of the script to the next.                         *)
(***************************************************************************)
EXTENDS Integers, Sequences, FiniteSets, TLC

\* ---------------------------------------------------------------- bounds
\* How many of the configured artifacts a run iterates over.
NumFiles == 2
\* How many consecutive runs of the script are followed.
MaxRuns == 2
\* Largest payload size, in GiB.
MaxSize == 12

\* ------------------------------------------------------------- constants
\* CHUNK_SIZE_BYTES, in GiB.
CHUNK_SIZE_BYTES == 5
\* max_retries of every retry loop.
max_retries == 3

FILES_ORDER ==
  << "ol_dump_authors_latest.txt.gz",
     "ol_dump_editions_latest.txt.gz",
     "ol_dump_works_latest.txt.gz" >>

\* FILES.items(), in insertion order.
FILES_ITEMS == SubSeq(FILES_ORDER, 1, NumFiles)
FILES == {FILES_ITEMS[i] : i \in 1..Len(FILES_ITEMS)}

\* Modification markers (Last-Modified values); equality is all that is used.
Markers == {"m1", "m2"}
\* Python's None: a missing header, a missing manifest key, a failed lookup.
None == "None"
\* The "present, no marker" result of get_hf_last_modified.
NoLfs == "<no-lfs>"
\* The synthetic origin marker of a dry run.
DryRunTime == "<dry-run-time>"
\* A local variable that no assignment has bound yet.
Unbound == "unbound"
\* The two values reused takes once bound.
PyTrue == "True"
PyFalse == "False"

\* What get_hf_last_modified can return for an artifact: the marker the
\* mirror records, "<no-lfs>" when it lists the artifact without one, None
\* when it does not list it or the lookup fails with HfHubHTTPError.
MirrorStates == Markers \cup {NoLfs, None}

\* Contents of a local artifact file: none, an incomplete or junk file, or a
\* complete copy of the version the origin served under a given marker.
Absent == "absent"
Partial == "partial"

\* An argument the command line did not give.
NoArg == ""
UnknownName == "no_such_file.txt"

EmptyDict == [x \in {} |-> x]

VARIABLES
  runNo,         \* which run of the script this is (also the wall clock)
  dry_run,       \* args.dry_run
  only,          \* args.only
  upload_only,   \* args.upload_only
  origin,        \* Last-Modified header the origin serves, per artifact
  mirror,        \* what the mirror lists for the artifact being handled
  diskManifest,  \* the document at MANIFEST_PATH
  localFile,     \* the local artifact files
  partFiles,     \* the temporary part files on local storage
  manifest,      \* main's manifest dict
  pc,            \* position of the process
  queue,         \* artifacts the loop of main has still to start
  cur,           \* filename of the running handle_download_and_upload
  ol_modified,   \* handle_download_and_upload's ol_modified
  hf_modified,   \* try_download_from_hf's hf_modified
  reused,        \* handle_download_and_upload's reused
  attempt,       \* attempt of the running retry loop
  r,             \* download_file's r
  file_size,     \* upload_with_chunks' file_size
  fpos,          \* read position of f in upload_with_chunks
  chunk,         \* upload_with_chunks' chunk
  chunk_idx,     \* upload_with_chunks' chunk_idx
  calls,         \* network functions main, then the running handler, called
  uploaded,      \* units upload_with_chunks has uploaded in this call
  slept,         \* time.sleep arguments of the running retry loop
  outcome,       \* how each artifact's workflow ended in this run
  crash,         \* the exception that ended the run, if any
  hist           \* facts about the run and the run before it

args == <<dry_run, only, upload_only>>
disk == <<diskManifest, localFile, partFiles>>
locals == <<ol_modified, hf_modified, reused, attempt, r, file_size, fpos,
            chunk, chunk_idx>>
vars == <<runNo, dry_run, only, upload_only, origin, mirror, diskManifest,
          localFile,
          partFiles, manifest, pc, queue, cur, ol_modified, hf_modified,
          reused, attempt, r, file_size, fpos, chunk, chunk_idx, calls,
          uploaded, slept, outcome, crash, hist>>

\* ------------------------------------------------------------- manifest
\* manifest.get(filename, {}).get("source_last_modified")
source_last_modified(m, filename) ==
  IF filename \in DOMAIN m THEN m[filename].source_last_modified ELSE None

\* The sub-entry written under converted_chunks[filename].
ChunkEntry(now) == [last_synced |-> now, converted |-> TRUE]

\* d[k] = v of a Python dict.
SetItem(d, k, v) == [x \in DOMAIN d \cup {k} |-> IF x = k THEN v ELSE d[x]]

\* The update branch with the entry's converted_chunks replaced wholesale.
record_sync_replace(m, filename, marker, now) ==
  SetItem(m, filename,
    [last_synced |-> now,
     source_last_modified |-> marker,
     converted_chunks |-> SetItem(EmptyDict, filename, ChunkEntry(now))])

\* Lines 211-230: create the entry, or update it in place (an entry that
\* lacks converted_chunks gets an empty one first, lines 225-226).
record_sync(m, filename, marker, now) ==
  IF filename \notin DOMAIN m
  THEN SetItem(m, filename,
         [last_synced |-> now,
          source_last_modified |-> marker,
          converted_chunks |-> SetItem(EmptyDict, filename, ChunkEntry(now))])
  ELSE LET entry == m[filename]
           converted_chunks ==
             IF "converted_chunks" \in DOMAIN entry
             THEN entry.converted_chunks
             ELSE EmptyDict
       IN SetItem(m, filename,
            SetItem(SetItem(SetItem(entry, "last_synced", now),
                            "source_last_modified", marker),
                    "converted_chunks",
                    SetItem(converted_chunks, filename, ChunkEntry(now))))

\* Manifest documents an earlier run may have left: any subset of the
\* artifacts, each recorded under some marker.
InitManifests ==
  UNION { { [f \in D |-> [last_synced |-> 0,
                          source_last_modified |-> mk[f],
                          converted_chunks |->
                            SetItem(EmptyDict, f, ChunkEntry(0))]]
            : mk \in [D -> Markers] }
          : D \in SUBSET FILES }

\* ------------------------------------------------------------ decisions
\* Line 186 with the test of os.path.exists inverted.
already_up_to_date_inverted(last_synced, ol, exists) ==
  last_synced = ol /\ ~exists

\* Line 186, without the dry-run test: the artifact is already current.
already_up_to_date(last_synced, ol, exists) ==
  last_synced = ol /\ exists

\* Lines 87-95 with the manifest test of line 90 dropped.
reuse_ok_no_manifest(hf, ol, manifest_modified) ==
  \/ hf = ol
  \/ hf = None
  \/ hf = NoLfs

\* Lines 87-95: reuse_ok of try_download_from_hf.  Python's `and` binds
\* tighter than `or`.
reuse_ok(hf, ol, manifest_modified) ==
  \/ hf = ol
  \/ hf = None
  \/ (hf = NoLfs /\ manifest_modified = ol)

\* Line 86.
manifest_modified(m, filename) ==
  IF DOMAIN m # {} THEN source_last_modified(m, filename) ELSE None

\* ------------------------------------------------------------- chunking
\* The bytes of a payload of the given size: byte i is i.
Payload(size) == [i \in 1..size |-> i]

Min(a, b) == IF a < b THEN a ELSE b

\* f.read(n) at position pos of a file holding data.
Read(data, pos, n) == SubSeq(data, pos + 1, Min(pos + n, Len(data)))

\* Line 166 with the size test dropped: the first part gets the bare name.
chunk_filename_bare_first(repo_path, idx, size) ==
  IF idx = 0
  THEN <<repo_path, -1>>
  ELSE <<repo_path, idx>>

\* Line 166.  A name is <<repo_path, index>>; index -1 is the bare repo_path.
chunk_filename(repo_path, idx, size) ==
  IF idx = 0 /\ size <= CHUNK_SIZE_BYTES
  THEN <<repo_path, -1>>
  ELSE <<repo_path, idx>>

\* ---------------------------------------------------------------- steps
\* Line 34 with a fixed delay in place of the exponential one.
Pow2_fixed(n) == 2

\* 2 ** attempt, for the attempts that sleep.
Pow2(n) == IF n = 1 THEN 2 ELSE IF n = 2 THEN 4 ELSE 8

FreshLocals ==
  /\ ol_modified' = Unbound
  /\ hf_modified' = Unbound
  /\ reused' = Unbound
  /\ attempt' = 0
  /\ r' = Unbound
  /\ file_size' = 0
  /\ fpos' = 0
  /\ chunk' = <<>>
  /\ chunk_idx' = 0

FreshHist(prevDone) ==
  [prevFullDone |-> prevDone, loaded |-> EmptyDict, recorded |-> {},
   started |-> {}, artifactUploads |-> FALSE, saved |-> FALSE]

\* An exception nothing catches: the process ends.
Raise(exc) ==
  /\ pc' = "crashed"
  /\ crash' = exc

\* handle_download_and_upload returns to the loop of main: its locals, and
\* those of the functions it called, are gone.
Return(how) ==
  /\ pc' = "loop"
  /\ outcome' = [outcome EXCEPT ![cur] = how]
  /\ FreshLocals
  /\ uploaded' = <<>>
  /\ slept' = <<>>

\* Command lines: the full run, --only NAME, --upload-only NAME.
ArgSets ==
  { <<d, o, u>> \in BOOLEAN \X (FILES \cup {NoArg, UnknownName})
                            \X (FILES \cup {NoArg}) :
      o = NoArg \/ u = NoArg }

Init ==
  /\ runNo = 1
  /\ \E a \in ArgSets :
       /\ dry_run = a[1]
       /\ only = a[2]
       /\ upload_only = a[3]
  /\ origin \in [FILES -> Markers \cup {None}]
  /\ mirror = None
  /\ \/ diskManifest = [state |-> "absent", doc |-> EmptyDict]
     \/ \E m \in InitManifests \ {EmptyDict} :
          diskManifest = [state |-> "ok", doc |-> m]
  /\ localFile \in [FILES -> Markers \cup {Absent}]
  /\ \* a local file is a copy of the version its manifest entry records
     \A f \in FILES :
       f \in DOMAIN diskManifest.doc /\ localFile[f] # Absent
         => localFile[f] = diskManifest.doc[f].source_last_modified
  /\ partFiles = {}
  /\ manifest = EmptyDict
  /\ pc = "main"
  /\ queue = <<>>
  /\ cur = NoArg
  /\ ol_modified = Unbound
  /\ hf_modified = Unbound
  /\ reused = Unbound
  /\ attempt = 0
  /\ r = Unbound
  /\ file_size = 0
  /\ fpos = 0
  /\ chunk = <<>>
  /\ chunk_idx = 0
  /\ calls = {}
  /\ uploaded = <<>>
  /\ slept = <<>>
  /\ outcome = [f \in FILES |-> "none"]
  /\ crash = "none"
  /\ hist = FreshHist(FALSE)

\* main, lines 240-255: login, load_manifest, and the choice of what to run.
main ==
  /\ pc = "main"
  /\ IF diskManifest.state = "partial"
     THEN \* json.load raises on a truncated document
          /\ Raise("JSONDecodeError")
          /\ UNCHANGED <<manifest, queue, hist>>
     ELSE /\ manifest' = diskManifest.doc
          /\ hist' = [hist EXCEPT !.loaded = diskManifest.doc]
          /\ IF only # NoArg
             THEN /\ queue' = IF only \in FILES THEN <<only>> ELSE <<>>
                  /\ pc' = "loop"
                  /\ UNCHANGED crash
             ELSE IF upload_only # NoArg
             THEN \* handle_upload_only is defined nowhere: NameError
                  /\ Raise("NameError")
                  /\ UNCHANGED queue
             ELSE /\ queue' = FILES_ITEMS
                  /\ pc' = "loop"
                  /\ UNCHANGED crash
  /\ calls' = IF dry_run THEN {} ELSE {"login"}
  /\ UNCHANGED <<runNo, args, origin, mirror, disk, cur, locals, uploaded,
                 slept, outcome>>

\* The for loop of main (or the single call under --only): start the next
\* handle_download_and_upload (lines 182-183), or go on to line 257.
loop ==
  /\ pc = "loop"
  /\ IF queue # <<>>
     THEN /\ cur' = Head(queue)
          /\ queue' = Tail(queue)
          /\ calls' = {}
          /\ uploaded' = <<>>
          /\ slept' = <<>>
          /\ hist' = [hist EXCEPT !.started = @ \cup {Head(queue)}]
          /\ mirror' \in MirrorStates
          /\ hf_modified' = Unbound
          /\ reused' = Unbound
          /\ r' = Unbound
          /\ file_size' = 0
          /\ fpos' = 0
          /\ chunk' = <<>>
          /\ chunk_idx' = 0
          /\ IF dry_run
             THEN /\ ol_modified' = DryRunTime
                  /\ attempt' = 0
                  /\ pc' = "decide"
             ELSE /\ ol_modified' = Unbound
                  /\ attempt' = 1
                  /\ pc' = "get_last_modified"
     ELSE \* the loop is over; the last handler's locals are gone
          /\ pc' = IF dry_run THEN "done" ELSE "save_manifest"
          /\ FreshLocals
          /\ calls' = {}
          /\ uploaded' = <<>>
          /\ slept' = <<>>
          /\ UNCHANGED <<cur, queue, hist, mirror>>
  /\ UNCHANGED <<runNo, args, origin, disk, manifest, outcome, crash>>

\* get_last_modified, one attempt of lines 25-34.
get_last_modified ==
  /\ pc = "get_last_modified"
  /\ calls' = calls \cup {"get_last_modified"}
  /\ \/ \* the HEAD request succeeds: return the Last-Modified header
        /\ ol_modified' = origin[cur]
        /\ pc' = "decide"
        /\ attempt' = 0
        /\ slept' = <<>>
        /\ UNCHANGED crash
     \/ \* it fails
        /\ IF attempt = max_retries
           THEN /\ Raise("HEAD")
                /\ UNCHANGED <<attempt, slept>>
           ELSE /\ slept' = Append(slept, Pow2(attempt))
                /\ attempt' = attempt + 1
                /\ UNCHANGED <<pc, crash>>
        /\ UNCHANGED ol_modified
  /\ UNCHANGED <<runNo, args, origin, mirror, disk, manifest, queue, cur,
                 hf_modified, reused, r, file_size, fpos, chunk, chunk_idx,
                 uploaded, outcome, hist>>

\* Lines 186 and 191 without their dry-run tests.
decide_ignores_dry_run ==
  /\ pc = "decide"
  /\ IF already_up_to_date(source_last_modified(manifest, cur),
                           ol_modified, localFile[cur] # Absent)
     THEN /\ Return("Skip")
          /\ UNCHANGED crash
     ELSE IF localFile[cur] = Absent
     THEN /\ pc' = "get_hf_last_modified"
          /\ UNCHANGED <<outcome, crash, locals, uploaded, slept>>
     ELSE /\ Raise("UnboundLocalError")
          /\ UNCHANGED <<outcome, locals, uploaded, slept>>
  /\ UNCHANGED <<runNo, args, origin, mirror, disk, manifest, queue, cur,
                 calls, hist>>

\* handle_download_and_upload, lines 184-205 up to the first network call.
decide ==
  /\ pc = "decide"
  /\ IF dry_run
     THEN \* line 191 is false: straight to the manifest update
          /\ pc' = "record"
          /\ UNCHANGED <<outcome, crash, locals, uploaded, slept>>
     ELSE IF already_up_to_date(source_last_modified(manifest, cur),
                                ol_modified, localFile[cur] # Absent)
     THEN \* line 188
          /\ Return("Skip")
          /\ UNCHANGED crash
     ELSE IF localFile[cur] = Absent
     THEN /\ pc' = "get_hf_last_modified"
          /\ UNCHANGED <<outcome, crash, locals, uploaded, slept>>
     ELSE \* line 205 reads reused, which line 194 never bound
          /\ Raise("UnboundLocalError")
          /\ UNCHANGED <<outcome, locals, uploaded, slept>>
  /\ UNCHANGED <<runNo, args, origin, mirror, disk, manifest, queue, cur,
                 calls, hist>>

\* try_download_from_hf, lines 84-96: the mirror lookup and the choice of
\* reuse_ok.
get_hf_last_modified ==
  /\ pc = "get_hf_last_modified"
  /\ calls' = calls \cup {"get_hf_last_modified"}
  /\ IF reuse_ok(mirror, ol_modified, manifest_modified(manifest, cur))
     THEN /\ hf_modified' = mirror
          /\ pc' = "hf_hub_download"
          /\ attempt' = 1
          /\ UNCHANGED reused
     ELSE \* line 120 returns False; line 198 goes on to download_file
          /\ hf_modified' = Unbound
          /\ reused' = PyFalse
          /\ pc' = "download_file"
          /\ attempt' = 1
  /\ UNCHANGED <<runNo, args, origin, mirror, disk, manifest, queue, cur,
                 ol_modified, r, file_size, fpos, chunk, chunk_idx, uploaded,
                 slept, outcome, crash, hist>>

\* The version a copy read from the mirror holds: the one its marker names,
\* or any version when the mirror reported no marker.
MirrorCopies(hf) == IF hf \in Markers THEN {hf} ELSE Markers

\* Lines 100-117 with the artifact given up when the last attempt fails, in
\* place of the return of False and the origin download of lines 198-201.
hf_hub_download_gives_up ==
  /\ pc = "hf_hub_download"
  /\ calls' = calls \cup {"hf_hub_download"}
  /\ \/ /\ \E v \in MirrorCopies(hf_modified) :
             localFile' = [localFile EXCEPT ![cur] = v]
        /\ Return("Reused")
     \/ /\ IF attempt = max_retries
           THEN Return("Failed")
           ELSE /\ slept' = Append(slept, Pow2(attempt))
                /\ attempt' = attempt + 1
                /\ UNCHANGED <<pc, hf_modified, reused, outcome, ol_modified,
                               r, file_size, fpos, chunk, chunk_idx,
                               uploaded>>
        /\ UNCHANGED localFile
  /\ UNCHANGED <<runNo, args, origin, mirror, diskManifest, partFiles,
                 manifest, queue, cur, crash, hist>>

\* try_download_from_hf, one attempt of lines 100-117, and what lines 195-198
\* do with the result.
hf_hub_download ==
  /\ pc = "hf_hub_download"
  /\ calls' = calls \cup {"hf_hub_download"}
  /\ \/ \* the download succeeds: return True, and line 197 returns
        /\ \E v \in MirrorCopies(hf_modified) :
             localFile' = [localFile EXCEPT ![cur] = v]
        /\ Return("Reused")
     \/ \* it fails
        /\ IF attempt = max_retries
           THEN \* return False; line 198 goes on to download_file
                /\ hf_modified' = Unbound
                /\ reused' = PyFalse
                /\ pc' = "download_file"
                /\ attempt' = 1
                /\ slept' = <<>>
           ELSE /\ slept' = Append(slept, Pow2(attempt))
                /\ attempt' = attempt + 1
                /\ UNCHANGED <<pc, hf_modified, reused>>
        /\ UNCHANGED <<localFile, outcome, ol_modified, r, file_size, fpos,
                       chunk, chunk_idx, uploaded>>
  /\ UNCHANGED <<runNo, args, origin, mirror, diskManifest, partFiles,
                 manifest, queue, cur, crash, hist>>

\* Lines 74-78 re-raising nothing: the last failed attempt falls out of the
\* loop and download_file returns as if it had succeeded.
download_failed_returns(response) ==
  IF attempt = max_retries
  THEN /\ pc' = "upload_with_chunks"
       /\ attempt' = 0
       /\ slept' = <<>>
       /\ r' = Unbound
       /\ UNCHANGED <<outcome, ol_modified, hf_modified, reused, file_size,
                      fpos, chunk, chunk_idx, uploaded>>
  ELSE /\ slept' = Append(slept, Pow2(attempt))
       /\ r' = response
       /\ pc' = "download_tail"
       /\ UNCHANGED <<outcome, ol_modified, hf_modified, reused, attempt,
                      file_size, fpos, chunk, chunk_idx, uploaded>>

\* Lines 79-81 followed by a return: an attempt that failed and was not the
\* last ends download_file normally, whatever the file holds.
download_failed_early_return(response) ==
  IF attempt = max_retries
  THEN Return("Failed")
  ELSE /\ pc' = "upload_with_chunks"
       /\ attempt' = 0
       /\ slept' = <<>>
       /\ r' = Unbound
       /\ UNCHANGED <<outcome, ol_modified, hf_modified, reused, file_size,
                      fpos, chunk, chunk_idx, uploaded>>

\* What the except of lines 74-78 does after a failed attempt that left r as
\* given: re-raise on the last one (line 202 catches it and line 204
\* returns), else sleep and go on to lines 79-81.
download_failed(response) ==
  IF attempt = max_retries
  THEN Return("Failed")
  ELSE /\ slept' = Append(slept, Pow2(attempt))
       /\ r' = response
       /\ pc' = "download_tail"
       /\ UNCHANGED <<outcome, ol_modified, hf_modified, reused, attempt,
                      file_size, fpos, chunk, chunk_idx, uploaded>>

\* download_file, one attempt of lines 67-78.
download_file ==
  /\ pc = "download_file"
  /\ calls' = calls \cup {"download_file"}
  /\ \/ \* the whole payload is streamed to the file: return
        /\ localFile' = [localFile EXCEPT ![cur] = origin[cur]]
        /\ pc' = "upload_with_chunks"
        /\ attempt' = 0
        /\ slept' = <<>>
        /\ r' = Unbound
        /\ UNCHANGED <<outcome, ol_modified, hf_modified, reused, file_size,
                       fpos, chunk, chunk_idx, uploaded>>
     \/ \* requests.get raises: r is not assigned
        /\ download_failed(r)
        /\ UNCHANGED localFile
     \/ \* raise_for_status raises: the file is not opened
        /\ download_failed("bound")
        /\ UNCHANGED localFile
     \/ \* the stream breaks after open(filename, "wb")
        /\ download_failed("bound")
        /\ localFile' = [localFile EXCEPT ![cur] = Partial]
  /\ UNCHANGED <<runNo, args, origin, mirror, diskManifest, partFiles,
                 manifest, queue, cur, crash, hist>>

\* download_file, lines 79-81, reached after a failed attempt that was not
\* the last: the file is opened for writing (truncated) and r is read again.
download_tail ==
  /\ pc = "download_tail"
  /\ localFile' = [localFile EXCEPT ![cur] = Partial]
  /\ IF r = Unbound
     THEN \* UnboundLocalError outside the try: download_file raises, line
          \* 202 catches it and line 204 returns
          Return("Failed")
     ELSE \/ \* the closed response yields nothing more: next attempt
             /\ attempt' = attempt + 1
             /\ pc' = "download_file"
             /\ UNCHANGED <<outcome, ol_modified, hf_modified, reused, r,
                            file_size, fpos, chunk, chunk_idx, uploaded,
                            slept>>
          \/ \* reading the closed response raises: as above
             Return("Failed")
  /\ UNCHANGED <<runNo, args, origin, mirror, diskManifest, partFiles,
                 manifest, queue, cur, calls, crash, hist>>

\* upload_with_chunks, lines 133-138 and 159-161: the size of the payload
\* that download_file wrote is read, and the single-unit or the chunked
\* branch is entered.  (ensure_branch_exists swallows its own failures.)
upload_with_chunks ==
  /\ pc = "upload_with_chunks"
  /\ calls' = calls \cup {"upload_with_chunks"}
  /\ uploaded' = <<>>
  /\ \E size \in 1..MaxSize :
       /\ file_size' = size
       /\ IF size <= CHUNK_SIZE_BYTES
          THEN /\ pc' = "upload_file"
               /\ attempt' = 1
          ELSE /\ pc' = "chunk_read"
               /\ attempt' = 0
  /\ fpos' = 0
  /\ chunk' = <<>>
  /\ chunk_idx' = 0
  /\ UNCHANGED <<runNo, args, origin, mirror, disk, manifest, queue, cur,
                 ol_modified, hf_modified, reused, r, slept, outcome, crash,
                 hist>>

\* upload_with_chunks, one attempt of lines 141-157.
upload_file ==
  /\ pc = "upload_file"
  /\ calls' = calls \cup {"upload_file"}
  /\ hist' = [hist EXCEPT !.artifactUploads = TRUE]
  /\ \/ \* the upload succeeds: break, and line 207 deletes nothing, since
        \* every name of FILES ends in ".txt.gz"
        /\ uploaded' = Append(uploaded, [name |-> <<cur, -1>>,
                                         data |-> Payload(file_size)])
        /\ pc' = "record"
        /\ attempt' = 0
        /\ slept' = <<>>
        /\ UNCHANGED crash
     \/ \* it fails
        /\ IF attempt = max_retries
           THEN /\ Raise("upload_file")
                /\ UNCHANGED <<attempt, slept>>
           ELSE /\ slept' = Append(slept, Pow2(attempt))
                /\ attempt' = attempt + 1
                /\ UNCHANGED <<pc, crash>>
        /\ UNCHANGED uploaded
  /\ UNCHANGED <<runNo, args, origin, mirror, disk, manifest, queue, cur,
                 ol_modified, hf_modified, reused, r, file_size, fpos, chunk,
                 chunk_idx, outcome>>

\* upload_with_chunks, lines 163-168: read the next window and write it to
\* its part file, or leave the loop at the end of the payload (line 207
\* then deletes nothing, as above).
chunk_read ==
  /\ pc = "chunk_read"
  /\ LET data == Read(Payload(file_size), fpos, CHUNK_SIZE_BYTES) IN
       /\ chunk' = data
       /\ fpos' = fpos + Len(data)
       /\ IF data = <<>>
          THEN /\ pc' = "record"
               /\ UNCHANGED partFiles
          ELSE /\ partFiles' = partFiles \cup
                                 {chunk_filename(cur, chunk_idx, file_size)}
               /\ pc' = "chunk_upload"
  /\ UNCHANGED <<runNo, args, origin, mirror, diskManifest, localFile,
                 manifest, queue, cur, ol_modified, hf_modified, reused,
                 attempt, r, file_size, chunk_idx, calls, uploaded, slept,
                 outcome, crash, hist>>

\* upload_with_chunks, lines 170-179: upload the part, then remove it.
chunk_upload ==
  /\ pc = "chunk_upload"
  /\ calls' = calls \cup {"upload_file"}
  /\ hist' = [hist EXCEPT !.artifactUploads = TRUE]
  /\ LET name == chunk_filename(cur, chunk_idx, file_size) IN
       \/ \* the upload succeeds
          /\ uploaded' = Append(uploaded, [name |-> name, data |-> chunk])
          /\ partFiles' = partFiles \ {name}
          /\ chunk_idx' = chunk_idx + 1
          /\ pc' = "chunk_read"
          /\ UNCHANGED crash
       \/ \* upload_file raises: nothing catches it, os.remove is not reached
          /\ Raise("upload_file")
          /\ UNCHANGED <<uploaded, partFiles, chunk_idx>>
  /\ UNCHANGED <<runNo, args, origin, mirror, diskManifest, localFile,
                 manifest, queue, cur, ol_modified, hf_modified, reused,
                 attempt, r, file_size, fpos, chunk, slept, outcome>>

\* handle_download_and_upload, lines 211-230, and the return.
record ==
  /\ pc = "record"
  /\ manifest' = record_sync(manifest, cur, ol_modified, runNo)
  /\ hist' = [hist EXCEPT !.recorded = @ \cup {cur}]
  /\ Return(IF dry_run THEN "DryRun" ELSE "Fetched")
  /\ UNCHANGED <<runNo, args, origin, mirror, disk, queue, cur, calls, crash>>

\* Line 258 left out: the retry loop of lines 259-274 starts at once.
save_manifest_skipped ==
  /\ pc = "save_manifest"
  /\ pc' = "manifest_upload"
  /\ attempt' = 1
  /\ slept' = <<>>
  /\ UNCHANGED <<runNo, args, origin, mirror, disk, manifest, queue, cur,
                 ol_modified, hf_modified, reused, r, file_size, fpos, chunk,
                 chunk_idx, calls, uploaded, outcome, crash, hist>>

\* save_manifest, line 61: open(MANIFEST_PATH, "w") truncates the document.
save_manifest ==
  /\ pc = "save_manifest"
  /\ diskManifest' = [state |-> "partial", doc |-> EmptyDict]
  /\ pc' = "json_dump"
  /\ UNCHANGED <<runNo, args, origin, mirror, localFile, partFiles, manifest, queue,
                 cur, locals, calls, uploaded, slept, outcome, crash, hist>>

\* save_manifest, line 62, and the start of the retry loop of lines 259-274.
json_dump ==
  /\ pc = "json_dump"
  /\ \/ \* the document is written out
        /\ diskManifest' = [state |-> "ok", doc |-> manifest]
        /\ hist' = [hist EXCEPT !.saved = TRUE]
        /\ pc' = "manifest_upload"
        /\ attempt' = 1
        /\ slept' = <<>>
        /\ UNCHANGED crash
     \/ \* the write fails or the process is stopped while writing
        /\ Raise("OSError")
        /\ UNCHANGED <<diskManifest, hist, attempt, slept>>
  /\ UNCHANGED <<runNo, args, origin, mirror, localFile, partFiles, manifest, queue,
                 cur, ol_modified, hf_modified, reused, r, file_size, fpos,
                 chunk, chunk_idx, calls, uploaded, outcome>>

\* main, one attempt of lines 260-274.
manifest_upload ==
  /\ pc = "manifest_upload"
  /\ \/ \* the upload succeeds: break, line 276
        /\ pc' = "done"
        /\ UNCHANGED <<attempt, slept, crash>>
     \/ \* it fails
        /\ IF attempt = max_retries
           THEN /\ Raise("manifest_upload")
                /\ UNCHANGED <<attempt, slept>>
           ELSE /\ slept' = Append(slept, Pow2(attempt))
                /\ attempt' = attempt + 1
                /\ UNCHANGED <<pc, crash>>
  /\ UNCHANGED <<runNo, args, origin, mirror, disk, manifest, queue, cur, ol_modified,
                 hf_modified, reused, r, file_size, fpos, chunk, chunk_idx,
                 calls, uploaded, outcome, hist>>

\* The script is run again, on the files the run before left behind.
next_run ==
  /\ pc \in {"done", "crashed"}
  /\ runNo < MaxRuns
  /\ runNo' = runNo + 1
  /\ \E a \in ArgSets :
       /\ dry_run' = a[1]
       /\ only' = a[2]
       /\ upload_only' = a[3]
  /\ hist' = FreshHist(/\ pc = "done"
                       /\ ~dry_run /\ only = NoArg /\ upload_only = NoArg
                       /\ \A f \in FILES :
                            outcome[f] \in {"Skip", "Reused", "Fetched"})
  /\ manifest' = EmptyDict
  /\ pc' = "main"
  /\ queue' = <<>>
  /\ cur' = NoArg
  /\ FreshLocals
  /\ calls' = {}
  /\ uploaded' = <<>>
  /\ slept' = <<>>
  /\ outcome' = [f \in FILES |-> "none"]
  /\ crash' = "none"
  /\ mirror' = None
  /\ UNCHANGED <<origin, disk>>

Next ==
  \/ main
  \/ loop
  \/ get_last_modified
  \/ decide
  \/ get_hf_last_modified
  \/ hf_hub_download
  \/ download_file
  \/ download_tail
  \/ upload_with_chunks
  \/ upload_file
  \/ chunk_read
  \/ chunk_upload
  \/ record
  \/ save_manifest
  \/ json_dump
  \/ manifest_upload
  \/ next_run

Spec == Init /\ [][Next]_vars

\* One run of the script with --only NAME: a single call of
\* handle_download_and_upload, then lines 257-276.
InitOnly ==
  /\ Init
  /\ only \in FILES
  /\ upload_only = NoArg

NextOnly ==
  \/ main
  \/ loop
  \/ get_last_modified
  \/ decide
  \/ get_hf_last_modified
  \/ hf_hub_download
  \/ download_file
  \/ download_tail
  \/ upload_with_chunks
  \/ upload_file
  \/ chunk_read
  \/ chunk_upload
  \/ record
  \/ save_manifest
  \/ json_dump
  \/ manifest_upload

SpecOnly == InitOnly /\ [][NextOnly]_vars

\* A converted_chunks key that is not the name of an artifact: a sub-entry
\* some other writer of the manifest left.
OtherChunk == "ol_dump_chunk_0.parquet"

\* Manifest entries as any writer may have left them: with any of those
\* converted_chunks for the artifact, or with none at all.
EntriesOf(f) ==
  { [last_synced |-> 0, source_last_modified |-> mk] : mk \in Markers }
  \cup
  { [last_synced |-> 0, source_last_modified |-> mk, converted_chunks |-> cc] :
      mk \in Markers,
      cc \in { [k \in K |-> ChunkEntry(0)] : K \in SUBSET {f, OtherChunk} } }

\* A manifest document of such entries, for any subset of the artifacts.
AnyManifests ==
  UNION { { m \in [D -> UNION {EntriesOf(f) : f \in D}] :
              \A f \in D : m[f] \in EntriesOf(f) }
          : D \in SUBSET FILES }

\* A dry run (full, or --only NAME) started on any such document.  The
\* origin is never asked; the local files are those of an earlier run.
InitDryRun ==
  /\ runNo = 1
  /\ dry_run = TRUE
  /\ only \in FILES \cup {NoArg, UnknownName}
  /\ upload_only = NoArg
  /\ \E mk \in Markers : origin = [f \in FILES |-> mk]
  /\ mirror = None
  /\ \/ diskManifest = [state |-> "absent", doc |-> EmptyDict]
     \/ \E m \in AnyManifests \ {EmptyDict} :
          diskManifest = [state |-> "ok", doc |-> m]
  /\ localFile \in [FILES -> {origin[FILES_ITEMS[1]], Absent}]
  /\ partFiles = {}
  /\ manifest = EmptyDict
  /\ pc = "main"
  /\ queue = <<>>
  /\ cur = NoArg
  /\ ol_modified = Unbound
  /\ hf_modified = Unbound
  /\ reused = Unbound
  /\ attempt = 0
  /\ r = Unbound
  /\ file_size = 0
  /\ fpos = 0
  /\ chunk = <<>>
  /\ chunk_idx = 0
  /\ calls = {}
  /\ uploaded = <<>>
  /\ slept = <<>>
  /\ outcome = [f \in FILES |-> "none"]
  /\ crash = "none"
  /\ hist = FreshHist(FALSE)

\* What a dry run executes: lines 242-255, 183-190 and 211-230.
NextDryRun ==
  \/ main
  \/ loop
  \/ decide
  \/ record

SpecDryRun == InitDryRun /\ [][NextDryRun]_vars

\* ----------------------------------------------------------- properties
\* The run is a full one (no --only, no --upload-only) that touches the
\* network and the disk.
FullRun == ~dry_run /\ only = NoArg /\ upload_only = NoArg

\* C1: in a non-dry run, when the manifest's source_last_modified equals the
\* marker get_last_modified returned and the local file exists, the handler
\* returns as a Skip whatever the mirror holds: it makes no call beyond the
\* origin HEAD (no mirror lookup, no download, no upload) and changes
\* neither the disk nor the manifest.
C1_SkipWhenCurrent ==
  [][ (/\ pc = "decide"
       /\ ~dry_run
       /\ source_last_modified(manifest, cur) = ol_modified
       /\ localFile[cur] # Absent)
      => (/\ pc' = "loop"
          /\ outcome'[cur] = "Skip"
          /\ calls' = {"get_last_modified"}
          /\ UNCHANGED <<disk, manifest, uploaded>>) ]_vars

\* A Skip taken while the mirror also holds the origin's current marker.
C1_Witness ==
  /\ pc = "loop"
  /\ ~dry_run
  /\ cur \in FILES
  /\ outcome[cur] = "Skip"
  /\ mirror \in Markers
  /\ mirror = origin[cur]
  /\ calls = {"get_last_modified"}

\* C2: in a non-dry run that is not a Skip, local file present or absent,
\* when the marker the mirror reports equals the origin marker the decision
\* is ReuseMirror: the handler goes to the mirror lookup and from there to
\* hf_hub_download, with no origin download and no upload before it.
C2_ReuseWhenMirrorCurrent ==
  [][ (/\ pc \in {"decide", "get_hf_last_modified"}
       /\ ~dry_run
       /\ mirror \in Markers
       /\ mirror = ol_modified
       /\ ~(/\ source_last_modified(manifest, cur) = ol_modified
            /\ localFile[cur] # Absent))
      => (/\ pc' = IF pc = "decide" THEN "get_hf_last_modified"
                                    ELSE "hf_hub_download"
          /\ calls' \cap {"download_file", "upload_with_chunks"} = {}) ]_vars

\* C3: when the mirror lookup returns "<no-lfs>", try_download_from_hf goes on
\* to the mirror download exactly when the manifest's source_last_modified
\* equals the origin marker; otherwise it returns False with no mirror
\* download attempted, and the origin download follows.
C3_NoMarkerFollowsManifest ==
  [][ (pc = "get_hf_last_modified" /\ mirror = NoLfs)
      => IF source_last_modified(manifest, cur) = ol_modified
         THEN pc' = "hf_hub_download"
         ELSE /\ pc' = "download_file"
              /\ reused' = PyFalse
              /\ "hf_hub_download" \notin calls' ]_vars

\* The mirror reported "<no-lfs>", the manifest marker matched, and the
\* mirror download is being attempted.
C3_Witness ==
  /\ pc = "hf_hub_download"
  /\ hf_modified = NoLfs
  /\ ol_modified \in Markers
  /\ source_last_modified(manifest, cur) = ol_modified

\* C4: when the mirror lookup yields None (no entry, or the lookup failed)
\* and the origin marker is a concrete marker, the decision is FetchOrigin:
\* no mirror download is attempted, the origin download follows, and the run
\* goes on.
C4_AbsentMirrorFetchesOrigin ==
  [][ (/\ pc = "get_hf_last_modified"
       /\ mirror = None
       /\ ol_modified \in Markers)
      => (/\ pc' = "download_file"
          /\ "hf_hub_download" \notin calls') ]_vars

\* The case C5 is about: the handler of cur reused the mirror's copy, the
\* mirror's marker being the origin's marker M and the loaded manifest
\* recording another one.
ReusedMirrorCurrent ==
  /\ ~dry_run
  /\ cur \in FILES
  /\ outcome[cur] = "Reused"
  /\ origin[cur] \in Markers
  /\ mirror = origin[cur]
  /\ source_last_modified(hist.loaded, cur) # origin[cur]

\* C5: after a successful ReuseMirror of that kind the manifest entry records
\* M, in memory when the handler returns and in the document save_manifest
\* persists at the end of the run.
C5_ReuseRecordsMarker ==
  /\ (pc = "loop" /\ ReusedMirrorCurrent)
       => source_last_modified(manifest, cur) = origin[cur]
  /\ (pc = "done" /\ ReusedMirrorCurrent)
       => /\ diskManifest.state = "ok"
          /\ source_last_modified(diskManifest.doc, cur) = origin[cur]

\* C6: in a full non-dry run a failed per-artifact step (the origin HEAD or
\* the upload out of attempts, the origin download out of attempts) fails
\* that artifact only: it never ends the run, and once the run is over every
\* artifact of FILES was started and save_manifest was reached.
C6_FailureContained ==
  FullRun =>
    /\ crash \notin {"HEAD", "upload_file"}
    /\ (/\ pc \in {"done", "crashed"}
        /\ crash \notin {"JSONDecodeError", "UnboundLocalError"}
        /\ \E f \in FILES : outcome[f] = "Failed")
         => /\ hist.started = FILES
            /\ (pc = "done" \/ crash \in {"OSError", "manifest_upload"})

\* C7: a second full non-dry run, started on what a completed first full run
\* left (each artifact skipped, reused or fetched and uploaded; same origin
\* markers), ends no handler with an exception, makes no artifact upload and
\* leaves every source_last_modified as loaded.
C7_SecondRunIdempotent ==
  (FullRun /\ hist.prevFullDone) =>
    /\ crash \notin {"UnboundLocalError", "upload_file"}
    /\ ~hist.artifactUploads
    /\ \A f \in FILES :
         source_last_modified(manifest, f)
           = source_last_modified(hist.loaded, f)

\* ceil(a / b)
CeilDiv(a, b) == (a + b - 1) \div b

RECURSIVE Concat(_)
\* The data of a sequence of uploaded units, joined in order.
Concat(units) ==
  IF units = <<>> THEN <<>>
  ELSE units[1].data \o Concat(Tail(units))

\* C8: when upload_with_chunks returns for a payload of size S > C, it has
\* uploaded exactly ceil(S/C) parts, named <repo_path>.part0, .part1, ... in
\* that order, each but the last of size C, the last of size
\* S - (ceil(S/C)-1)*C, and their data joined in order is the payload.
C8_ChunkingContract ==
  (pc = "record" /\ file_size > CHUNK_SIZE_BYTES) =>
    LET n == CeilDiv(file_size, CHUNK_SIZE_BYTES) IN
      /\ Len(uploaded) = n
      /\ \A k \in 1..Len(uploaded) :
           /\ uploaded[k].name = <<cur, k - 1>>
           /\ k < n => Len(uploaded[k].data) = CHUNK_SIZE_BYTES
           /\ k = n => Len(uploaded[k].data)
                         = file_size - (n - 1) * CHUNK_SIZE_BYTES
      /\ Concat(uploaded) = Payload(file_size)

\* A chunked upload of three parts, the last one short, has returned.
C8_Witness ==
  /\ pc = "record"
  /\ file_size > 2 * CHUNK_SIZE_BYTES
  /\ file_size % CHUNK_SIZE_BYTES # 0
  /\ Len(uploaded) = 3

\* C9: at most one temporary part file is on local storage at any time, and
\* none is once upload_with_chunks has returned for an oversized payload.
C9_OnePartResident ==
  /\ Cardinality(partFiles) <= 1
  /\ (pc = "record" /\ file_size > CHUNK_SIZE_BYTES) => partFiles = {}

\* C10: when a non-dry run ends with an exception, the persisted document is
\* a whole one and equals the manifest as of the last completed Recording.
C10_TerminatedRunPersists ==
  (pc = "crashed" /\ ~dry_run /\ crash # "JSONDecodeError") =>
    /\ diskManifest.state # "partial"
    /\ diskManifest.doc = manifest

\* The attempt of download_file or hf_hub_download taken in this step left
\* no complete payload in the local file.
NoPayload == localFile'[cur] \in {Absent, Partial}

\* The manifest entry of f is what load_manifest read.
EntryAsLoaded(m, f) ==
  /\ f \in DOMAIN m <=> f \in DOMAIN hist.loaded
  /\ f \in DOMAIN m => m[f] = hist.loaded[f]

\* C11: when the third attempt of download_file fails too, the handler
\* returns normally to main with the artifact failed: no exception reaches
\* main, upload_with_chunks is not called, and the manifest, with the
\* artifact's entry as loaded, is left as it was.
C11_ExhaustedFetchFailsArtifact ==
  [][ (pc = "download_file" /\ attempt = max_retries /\ NoPayload)
      => (/\ pc' = "loop"
          /\ outcome'[cur] = "Failed"
          /\ crash' = "none"
          /\ calls' \cap {"upload_with_chunks", "upload_file"} = {}
          /\ uploaded' = <<>>
          /\ manifest' = manifest
          /\ EntryAsLoaded(manifest', cur)) ]_vars

\* The handler returned after a failed origin download that left a partial
\* file, the artifact having a manifest entry.
C11_Witness ==
  /\ pc = "loop"
  /\ cur \in DOMAIN manifest
  /\ outcome[cur] = "Failed"
  /\ "download_file" \in calls
  /\ localFile[cur] = Partial
  /\ manifest = hist.loaded

\* C12: the mirror download gives way to the origin download exactly when
\* its third attempt has failed (after waits of 2 and 4): the artifact is
\* not failed and no exception is raised, try_download_from_hf returns False
\* (reused is False), and download_file starts at its first attempt, as it
\* does when FetchOrigin is decided.
C12_MirrorExhaustionFallsBack ==
  [][ pc = "hf_hub_download"
      => (/\ pc' # "crashed"
          /\ outcome'[cur] # "Failed"
          /\ (attempt = 3 /\ NoPayload) => pc' = "download_file"
          /\ pc' = "download_file"
               => (/\ attempt = 3
                   /\ slept = <<2, 4>>
                   /\ NoPayload
                   /\ reused' = PyFalse
                   /\ attempt' = 1
                   /\ outcome' = outcome
                   /\ "download_file" \notin calls')) ]_vars

\* After the mirror download was tried and gave way, the origin download,
\* the upload and the Recording have all taken place.
C12_Witness ==
  /\ pc = "loop"
  /\ cur \in FILES
  /\ outcome[cur] = "Fetched"
  /\ {"hf_hub_download", "download_file", "upload_with_chunks"} \subseteq calls
  /\ source_last_modified(manifest, cur) = origin[cur]

\* upload_with_chunks is running or has run in the handler of cur.
UploadCalled ==
  \/ pc \in {"upload_with_chunks", "upload_file", "chunk_read", "chunk_upload"}
  \/ calls \cap {"upload_with_chunks", "upload_file"} # {}

\* download_file has returned normally in the handler of cur.
FetchedFromOrigin ==
  /\ "download_file" \in calls
  /\ pc \notin {"download_file", "download_tail"}
  /\ localFile[cur] \notin {Absent, Partial}

\* C13: in a handler, upload_with_chunks is entered if and only if
\* download_file has returned normally in that handler, the local file then
\* being the origin's payload; a handler that ended as Skip or as Reused (or
\* as Failed) made no upload.
C13_UploadIffFetched ==
  /\ (cur \in FILES /\ UploadCalled)
       => (/\ ~dry_run
           /\ "download_file" \in calls
           /\ localFile[cur] = origin[cur])
  /\ (cur \in FILES /\ FetchedFromOrigin) => UploadCalled
  /\ (pc = "loop" /\ cur \in FILES
        /\ outcome[cur] \in {"Skip", "Reused", "Failed", "DryRun"})
       => (/\ ~UploadCalled
           /\ uploaded = <<>>)

\* A single-unit upload that followed an origin download has succeeded.
C13_Witness ==
  /\ pc = "record"
  /\ ~dry_run
  /\ "download_file" \in calls
  /\ "hf_hub_download" \notin calls
  /\ file_size <= CHUNK_SIZE_BYTES
  /\ Len(uploaded) = 1

\* entry.get("converted_chunks", {})
ChunksOf(entry) ==
  IF "converted_chunks" \in DOMAIN entry THEN entry.converted_chunks
  ELSE EmptyDict

\* C14: the Recording of artifact cur, creating its entry or updating it,
\* leaves the entry of every other artifact as it was and adds no key but
\* cur; when it updates, every converted_chunks sub-entry of cur under
\* another key than cur is kept as it was, and the only key it adds is cur.
C14_RecordingIsAdditive ==
  [][ pc = "record"
      => (/\ DOMAIN manifest' = DOMAIN manifest \cup {cur}
          /\ \A f \in DOMAIN manifest \ {cur} : manifest'[f] = manifest[f]
          /\ cur \in DOMAIN manifest
               => LET old == ChunksOf(manifest[cur])
                      new == ChunksOf(manifest'[cur])
                  IN /\ DOMAIN new = DOMAIN old \cup {cur}
                     /\ \A k \in DOMAIN old \ {cur} : new[k] = old[k]) ]_vars

\* An entry that held a sub-entry under another key was updated, next to
\* the entry of another artifact, and both are still there.
C14_Witness ==
  /\ pc = "loop"
  /\ cur \in DOMAIN hist.loaded
  /\ outcome[cur] = "DryRun"
  /\ OtherChunk \in DOMAIN ChunksOf(hist.loaded[cur])
  /\ OtherChunk \in DOMAIN ChunksOf(manifest[cur])
  /\ manifest[cur].source_last_modified = DryRunTime
  /\ \E f \in DOMAIN manifest \ {cur} : manifest[f] = hist.loaded[f]

\* The loops of lines 25-34, 141-157 and 260-274.
RetryLoops == {"get_last_modified", "upload_file", "manifest_upload"}

\* The waits that precede attempt n of a retry loop.
WaitsBefore(n) == SubSeq(<<2, 4>>, 1, n - 1)

\* C15: each of the three retry loops is at its attempt 1, 2 or 3, having
\* waited 2 and then 4 before attempts 2 and 3; a failed attempt 1 or 2 waits
\* 2^attempt and goes to the next one, a failed attempt 3 waits no more and
\* ends the run with the error, and a success leaves the loop at once.
C15_BoundedRetry ==
  [][ (pc \in RetryLoops)
      => (/\ attempt \in 1..3
          /\ slept = WaitsBefore(attempt)
          /\ pc' = pc
               => (/\ attempt < 3
                   /\ attempt' = attempt + 1
                   /\ slept' = WaitsBefore(attempt + 1))
          /\ pc' = "crashed"
               => (/\ attempt = 3
                   /\ slept' = <<2, 4>>
                   /\ crash' \in {"HEAD", "upload_file", "manifest_upload"})
          /\ pc' \notin {pc, "crashed"}
               => (/\ crash' = "none"
                   /\ pc' = IF pc = "get_last_modified" THEN "decide"
                            ELSE IF pc = "upload_file" THEN "record"
                            ELSE "done")) ]_vars

\* The origin HEAD failed three times, with waits of 2 and 4 between the
\* attempts, and the error ended the run.
C15_Witness ==
  /\ pc = "crashed"
  /\ crash = "HEAD"
  /\ attempt = 3
  /\ slept = <<2, 4>>

\* The artifacts the command line selects.
Selected ==
  IF only # NoArg THEN {only} \cap FILES
  ELSE IF upload_only # NoArg THEN {}
  ELSE FILES

\* C16: every step of a dry run, full or --only, leaves the local files,
\* the part files and the persisted manifest document as they are and calls
\* no network function (login, origin HEAD or GET, mirror lookup or
\* download, upload); each handler still runs, with "<dry-run-time>" as the
\* origin marker, from its decision point to the Recording in memory.
C16_DryRunTouchesNothing ==
  [][ (dry_run /\ dry_run')
      => (/\ UNCHANGED <<diskManifest, localFile, partFiles>>
          /\ calls' = {}
          /\ uploaded' = <<>>
          /\ slept' = <<>>
          /\ pc' \in {"loop", "decide", "record", "done"}
          /\ pc = "decide" => (ol_modified = DryRunTime /\ pc' = "record")
          /\ pc = "record" => outcome'[cur] = "DryRun"
          /\ pc' = "done" => \A f \in Selected : outcome[f] = "DryRun") ]_vars

\* A full dry run is over: every artifact went through its handler, local
\* files are present, and the document on disk is not the manifest in memory.
C16_Witness ==
  /\ pc = "done"
  /\ dry_run
  /\ only = NoArg
  /\ \A f \in FILES : outcome[f] = "DryRun" /\ localFile[f] # Absent
  /\ diskManifest.state = "ok"
  /\ diskManifest.doc # manifest
  /\ diskManifest.doc = hist.loaded

\* C17: while the manifest upload of a run is being attempted the run is not
\* a dry one, no selected artifact is left to handle or in its handler,
\* save_manifest has written the manifest to the document on disk, and the
\* attempt is the first, second or third; a run the manifest upload ended
\* with its error had made three attempts, after the document was saved.
C17_ManifestUploadedLast ==
  /\ pc = "manifest_upload"
       => (/\ ~dry_run
           /\ queue = <<>>
           /\ \A f \in Selected : outcome[f] # "none"
           /\ hist.started = Selected
           /\ hist.saved
           /\ diskManifest = [state |-> "ok", doc |-> manifest]
           /\ attempt \in 1..3)
  /\ crash = "manifest_upload"
       => (/\ pc = "crashed"
           /\ attempt = 3
           /\ hist.saved
           /\ diskManifest = [state |-> "ok", doc |-> manifest])

\* The manifest upload failed three times after a fetched artifact was
\* recorded and the document saved: the run ended with the error.
C17_Witness ==
  /\ pc = "crashed"
  /\ crash = "manifest_upload"
  /\ only \in FILES
  /\ outcome[only] = "Fetched"
  /\ source_last_modified(diskManifest.doc, only) = origin[only]

\* C18: no non-dry handler that does not Skip ends with the unbound-variable
\* error of line 205: a run never stops on an UnboundLocalError, and from
\* the decision point with the local file present and the manifest marker
\* different from the origin's the handler goes on to upload and Recording.
C18_ReusedAlwaysBound ==
  [][ (/\ pc = "decide"
       /\ ~dry_run
       /\ localFile[cur] # Absent
       /\ ol_modified \in Markers
       /\ source_last_modified(manifest, cur) # ol_modified)
      => (/\ pc' = "upload_with_chunks"
          /\ crash' = "none") ]_vars

\* C19: download_file gives up only at its third failed attempt: a failed
\* attempt 1 or 2, whether the request or the stream failed, is followed by
\* another GET, and when an attempt succeeds the local file holds the whole
\* payload of the origin.
C19_RetriesUntilThirdFailure ==
  [][ (pc \in {"download_file", "download_tail"})
      => (/\ attempt < max_retries => outcome'[cur] # "Failed"
          /\ pc' = "upload_with_chunks" => localFile'[cur] = origin[cur]) ]_vars

\* C20: in any non-dry run, of any sequence of runs, the local file of an
\* artifact whose handler ended as a Skip is a complete one: it is never the
\* partial file a failed download_file left behind.
C20_SkipMeansCompleteCopy ==
  (/\ pc = "loop"
   /\ ~dry_run
   /\ cur \in FILES
   /\ outcome[cur] = "Skip"
   /\ origin[cur] \in Markers)
    => localFile[cur] # Partial

====
